---- MODULE Spec2Model ----
(***************************************************************************)
(* Round-robin coffee-shop scheduler (src/scheduler.py): the QueueRR       *)
(* circular buffer and the Scheduler engine (create_queue, enqueue,        *)
(* mark_skip, run, _perform_single_turn).  One step of the model is one    *)
(* public call that returns at once, or one iteration of run's loops.      *)
(***************************************************************************)
EXTENDS Integers, Sequences, FiniteSets, TLC

(* ------------------------------ bounds --------------------------------- *)
\* create_queue appends to _order on every call: calls are allowed while
\* len(_order) < MaxOrder
MaxOrder == 2
\* enqueue is allowed while the addressed queue's _next_task_num <= MaxTaskNum
MaxTaskNum == 2
\* largest capacity argument given to create_queue
MaxCapacity == 2
\* a run-until-quiet loop with quantum <= 0 is followed for MaxSpin turns
MaxSpin == 2
\* run with a negative quantum is started only while no queued task has
\* remaining > MaxRemaining
MaxRemaining == 2
\* in the specification with a longer _order, create_queue calls are allowed
\* while len(_order) < MaxLongOrder
MaxLongOrder == 3

(* ------------------------------ inputs --------------------------------- *)
QueueIds == {"A", "B"}
Capacities == -1 .. MaxCapacity
\* "espresso" is not on the menu
Items == {"americano", "espresso"}
\* the quanta the interface documents: positive integers
Quanta == {1, 2}
\* the quanta run accepts: any integer
AnyQuanta == {-1, 0, 1, 2}
StepsArgs == 0 .. (MaxOrder + 1)

(* ------------------------------ helpers -------------------------------- *)
Max(a, b) == IF a >= b THEN a ELSE b
Min(a, b) == IF a <= b THEN a ELSE b

\* Scheduler._menu
Menu ==
  [n \in {"americano", "latte", "cappuccino", "mocha", "tea", "macchiato",
          "hot_chocolate"} |->
     CASE n = "americano" -> 2
       [] n = "latte" -> 3
       [] n = "cappuccino" -> 3
       [] n = "mocha" -> 4
       [] n = "tea" -> 1
       [] n = "macchiato" -> 2
       [] n = "hot_chocolate" -> 4]

\* an empty slot of QueueRR._buf (Python None)
NoTask == [none |-> TRUE]

\* decimal digits of n >= 0, most significant first
RECURSIVE Digits(_)
Digits(n) == IF n < 10 THEN <<n>> ELSE Digits(n \div 10) \o <<n % 10>>

\* the format spec :03d, zero padding to at least 3 digits
Fmt03d(n) ==
  LET d == Digits(n)
  IN  IF Len(d) >= 3 THEN d ELSE [i \in 1 .. (3 - Len(d)) |-> 0] \o d

(* ------------------------------ QueueRR -------------------------------- *)
\* QueueRR.__init__ with capacity taken as given (no clamp at 0)
NewQueueRRNoClamp(queue_id, capacity) ==
  [queue_id |-> queue_id,
   capacity |-> capacity,
   buf |-> [i \in 0 .. ((IF capacity > 0 THEN capacity ELSE 1) - 1) |-> NoTask],
   head |-> 0,
   size |-> 0,
   next_task_num |-> 1]

\* QueueRR.__init__
NewQueueRR(queue_id, capacity) ==
  LET cap == Max(0, capacity)
  IN  [queue_id |-> queue_id,
       capacity |-> cap,
       buf |-> [i \in 0 .. ((IF cap > 0 THEN cap ELSE 1) - 1) |-> NoTask],
       head |-> 0,
       size |-> 0,
       next_task_num |-> 1]

\* len(self._buf)
BufLen(q) == Cardinality(DOMAIN q.buf)

\* QueueRR.enqueue writing the task in front of the head instead of behind
\* the last element
QEnqueueAtFront(q, task) ==
  IF q.size >= q.capacity
  THEN [ok |-> FALSE, q |-> q]
  ELSE LET pos == (q.head + BufLen(q) - 1) % BufLen(q)
       IN  [ok |-> TRUE,
            q |-> [q EXCEPT !.buf[pos] = task, !.head = pos, !.size = q.size + 1]]

\* QueueRR.enqueue: the returned bool and the queue afterwards
QEnqueue(q, task) ==
  IF q.size >= q.capacity
  THEN [ok |-> FALSE, q |-> q]
  ELSE LET pos == (q.head + q.size) % BufLen(q)
       IN  [ok |-> TRUE,
            q |-> [q EXCEPT !.buf[pos] = task, !.size = q.size + 1]]

\* QueueRR.dequeue: the returned task (NoTask for None) and the queue afterwards
QDequeue(q) ==
  IF q.size = 0
  THEN [task |-> NoTask, q |-> q]
  ELSE [task |-> q.buf[q.head],
        q |-> [q EXCEPT !.buf[q.head] = NoTask,
                        !.head = (q.head + 1) % BufLen(q),
                        !.size = q.size - 1]]

\* QueueRR.__len__
QLen(q) == q.size

\* QueueRR.contents_front_to_back
contents_front_to_back(q) ==
  SelectSeq([i \in 1 .. q.size |-> q.buf[(q.head + i - 1) % BufLen(q)]],
            LAMBDA t : t # NoTask)

\* QueueRR.next_task_id without the increment of line 64
next_task_id_no_increment(q) ==
  [tid |-> [queue |-> q.queue_id, num |-> Fmt03d(q.next_task_num)],
   q |-> q]

\* QueueRR.next_task_id: the id and the queue afterwards
next_task_id(q) ==
  [tid |-> [queue |-> q.queue_id, num |-> Fmt03d(q.next_task_num)],
   q |-> [q EXCEPT !.next_task_num = q.next_task_num + 1]]

(* ------------------------------ state ---------------------------------- *)
VARIABLES
  queues,        \* Scheduler._queues: queue id -> QueueRR
  order,         \* Scheduler._order
  skip_pending,  \* Scheduler._skip_pending: queue id -> bool
  next_index,    \* Scheduler._next_index
  time,          \* Scheduler._time
  logs,          \* the logs list of the call in progress, or of the last call
  pc,            \* "idle", or the loop of run that is executing
  quantum,       \* run's quantum (0 outside run)
  turns_to_do,   \* run's turns_to_do when steps is given (0 outside the for loop)
  turns,         \* iterations of run's loop done so far (0 outside run)
  submitted,     \* history: queue id -> enqueue calls addressed to the queue
                 \* since create_queue last bound it
  created,       \* history: queue id -> create_queue calls made for the id
  visited,       \* history: the queues of the last turns made since the last
                 \* create_queue call, oldest first, at most one per queue id
  start_index,   \* history: _next_index at the call of the run with steps in
                 \* progress (0 outside it)
  finished       \* history: the tasks that got a finish event, each with the
                 \* value of created for its queue at that time

vars == <<queues, order, skip_pending, next_index, time, logs, pc, quantum,
          turns_to_do, turns, submitted, created, finished, start_index, visited>>

\* the history variables that only create_queue and run change
hist == <<created, finished, start_index, visited>>

\* the locals of run, which exist only while run executes
locals == <<quantum, turns_to_do, turns>>

\* Scheduler._log_time_event: only the fields that are not None are rendered;
\* fields is the record of the optional arguments given
LogTimeEvent(t, event, fields) == [time |-> t, event |-> event] @@ fields

Init ==
  /\ queues = <<>>
  /\ order = <<>>
  /\ skip_pending = <<>>
  /\ next_index = 0
  /\ time = 0
  /\ logs = <<>>
  /\ pc = "idle"
  /\ quantum = 0
  /\ turns_to_do = 0
  /\ turns = 0
  /\ submitted = <<>>
  /\ created = <<>>
  /\ start_index = 0
  /\ visited = <<>>
  /\ finished = {}

(* --------------------------- create_queue ------------------------------ *)
\* Scheduler.create_queue
CreateQueueUpTo(queue_id, capacity, max_order) ==
  /\ pc = "idle"
  /\ Len(order) < max_order
  /\ queues' = [x \in DOMAIN queues \cup {queue_id} |->
                  IF x = queue_id THEN NewQueueRR(queue_id, capacity)
                                  ELSE queues[x]]
  /\ order' = Append(order, queue_id)
  /\ skip_pending' = [x \in DOMAIN skip_pending \cup {queue_id} |->
                        IF x = queue_id THEN FALSE ELSE skip_pending[x]]
  /\ logs' = <<LogTimeEvent(time, "create", [queue |-> queue_id])>>
  /\ submitted' = [x \in DOMAIN submitted \cup {queue_id} |->
                     IF x = queue_id THEN 0 ELSE submitted[x]]
  /\ created' = [x \in DOMAIN created \cup {queue_id} |->
                   IF x = queue_id
                   THEN (IF x \in DOMAIN created THEN created[x] + 1 ELSE 1)
                   ELSE created[x]]
  /\ visited' = <<>>
  /\ UNCHANGED <<next_index, time, pc, locals, finished, start_index>>

\* create_queue, called while len(_order) < MaxOrder
CreateQueue(queue_id, capacity) == CreateQueueUpTo(queue_id, capacity, MaxOrder)

(* ------------------------------ enqueue -------------------------------- *)
\* Scheduler.enqueue line 153: the capacity check before q.enqueue
AtCapacity(q) == QLen(q) >= q.capacity

\* Scheduler.enqueue with the capacity check of line 153 made before the
\* menu check of line 146
EnqueueKnownFullFirst(queue_id, item_name) ==
  LET gen == next_task_id(queues[queue_id])
      task_id == gen.tid
      q == gen.q
  IN  IF AtCapacity(q)
      THEN [q |-> q,
            logs |-> <<LogTimeEvent(time, "reject",
                         [queue |-> queue_id, task |-> task_id,
                          reason |-> "full"])>>]
      ELSE IF item_name \notin DOMAIN Menu
      THEN [q |-> q,
            logs |-> <<LogTimeEvent(time, "reject",
                         [queue |-> queue_id, task |-> task_id,
                          reason |-> "unknown_item"])>>]
      ELSE LET burst == Menu[item_name]
               r == QEnqueue(q, [task_id |-> task_id, remaining |-> burst])
           IN  [q |-> r.q,
                logs |-> <<LogTimeEvent(time, "enqueue",
                             [queue |-> queue_id, task |-> task_id,
                              remaining |-> burst])>>]

\* Scheduler.enqueue: the logs returned and the queue object afterwards
\* (queue_id is known to exist)
EnqueueKnown(queue_id, item_name) ==
  LET q0 == queues[queue_id]
      gen == next_task_id(q0)
      task_id == gen.tid
      q == gen.q
  IN  IF item_name \notin DOMAIN Menu
      THEN [q |-> q,
            logs |-> <<LogTimeEvent(time, "reject",
                         [queue |-> queue_id, task |-> task_id,
                          reason |-> "unknown_item"])>>]
      ELSE IF AtCapacity(q)
      THEN [q |-> q,
            logs |-> <<LogTimeEvent(time, "reject",
                         [queue |-> queue_id, task |-> task_id,
                          reason |-> "full"])>>]
      ELSE LET burst == Menu[item_name]
               r == QEnqueue(q, [task_id |-> task_id, remaining |-> burst])
           IN  IF ~r.ok
               THEN [q |-> r.q,
                     logs |-> <<LogTimeEvent(time, "reject",
                                  [queue |-> queue_id, task |-> task_id,
                                   reason |-> "full"])>>]
               ELSE [q |-> r.q,
                     logs |-> <<LogTimeEvent(time, "enqueue",
                                  [queue |-> queue_id, task |-> task_id,
                                   remaining |-> burst])>>]

\* Scheduler.enqueue
Enqueue(queue_id, item_name) ==
  /\ pc = "idle"
  /\ queue_id \in DOMAIN queues => queues[queue_id].next_task_num <= MaxTaskNum
  /\ IF queue_id \notin DOMAIN queues
     THEN /\ logs' = <<LogTimeEvent(time, "error",
                         [queue |-> queue_id, reason |-> "unknown_queue"])>>
          /\ UNCHANGED <<queues, submitted>>
     ELSE LET r == EnqueueKnown(queue_id, item_name)
          IN  /\ logs' = r.logs
              /\ queues' = [queues EXCEPT ![queue_id] = r.q]
              /\ submitted' = [submitted EXCEPT ![queue_id] = submitted[queue_id] + 1]
  /\ UNCHANGED <<order, skip_pending, next_index, time, pc, locals, hist>>

(* ------------------------------ mark_skip ------------------------------ *)
\* Scheduler.mark_skip without the unknown-queue check of lines 173-175
MarkSkipResultNoCheck(queue_id) ==
  [skip_pending |-> [x \in DOMAIN skip_pending \cup {queue_id} |->
                       IF x = queue_id THEN TRUE ELSE skip_pending[x]],
   logs |-> <<LogTimeEvent(time, "skip", [queue |-> queue_id])>>]

\* Scheduler.mark_skip: the flags afterwards and the logs returned
MarkSkipResult(queue_id) ==
  IF queue_id \notin DOMAIN queues
  THEN [skip_pending |-> skip_pending,
        logs |-> <<LogTimeEvent(time, "error",
                     [queue |-> queue_id, reason |-> "unknown_queue"])>>]
  ELSE [skip_pending |-> [skip_pending EXCEPT ![queue_id] = TRUE],
        logs |-> <<LogTimeEvent(time, "skip", [queue |-> queue_id])>>]

\* Scheduler.mark_skip
MarkSkip(queue_id) ==
  /\ pc = "idle"
  /\ skip_pending' = MarkSkipResult(queue_id).skip_pending
  /\ logs' = MarkSkipResult(queue_id).logs
  /\ UNCHANGED <<queues, order, next_index, time, pc, locals, submitted, hist>>

(* -------------------------- _perform_single_turn ----------------------- *)
\* the skip flag read as pending when the flag of any queue is
SkipGetAny(sp, qid) == \E x \in DOMAIN sp : sp[x]

\* the skip flag read as never pending
SkipGetNever(sp, qid) == FALSE

\* self._skip_pending.get(qid, False)
SkipGet(sp, qid) == IF qid \in DOMAIN sp THEN sp[qid] ELSE FALSE

\* Scheduler._perform_single_turn lines 316-319 with the credited time taken
\* as the quantum itself (no min with task.remaining)
WorkTimeNoMin(task, qt) == qt

\* Scheduler._perform_single_turn line 316 with no time worked at all
WorkTimeZero(task, qt) == 0

\* Scheduler._perform_single_turn line 316: work_time
WorkTime(task, qt) == Min(task.remaining, qt)

\* Scheduler._perform_single_turn line 321 with < in place of <=
IsFinishedStrict(task) == task.remaining < 0

\* Scheduler._perform_single_turn line 321: the task is finished
IsFinished(task) == task.remaining <= 0

\* Scheduler._perform_single_turn: the events of the turn and the engine
\* state after it
PerformSingleTurn(queue_id, qt) ==
  LET run_ev == LogTimeEvent(time, "run", [queue |-> queue_id])
      same == [queues |-> queues, skip_pending |-> skip_pending, time |-> time]
  IN  IF SkipGet(skip_pending, queue_id)
      THEN [same EXCEPT !.skip_pending = [skip_pending EXCEPT ![queue_id] = FALSE]]
           @@ [logs |-> <<run_ev, LogTimeEvent(time, "skip", [queue |-> queue_id])>>]
      ELSE IF queue_id \notin DOMAIN queues
      THEN same @@ [logs |-> <<run_ev>>]
      ELSE IF QLen(queues[queue_id]) = 0
      THEN same @@ [logs |-> <<run_ev>>]
      ELSE LET d == QDequeue(queues[queue_id])
           IN  IF d.task = NoTask
               THEN [same EXCEPT !.queues = [queues EXCEPT ![queue_id] = d.q]]
                    @@ [logs |-> <<run_ev>>]
               ELSE
           LET work_time == WorkTime(d.task, qt)
               t2 == time + work_time
               task == [d.task EXCEPT !.remaining = d.task.remaining - work_time]
           IN  IF IsFinished(task)
               THEN [queues |-> [queues EXCEPT ![queue_id] = d.q],
                     skip_pending |-> skip_pending,
                     time |-> t2,
                     logs |-> <<run_ev,
                                LogTimeEvent(t2, "work",
                                  [queue |-> queue_id, task |-> task.task_id,
                                   remaining |-> 0]),
                                LogTimeEvent(t2, "finish",
                                  [queue |-> queue_id, task |-> task.task_id])>>]
               ELSE [queues |-> [queues EXCEPT ![queue_id] = QEnqueue(d.q, task).q],
                     skip_pending |-> skip_pending,
                     time |-> t2,
                     logs |-> <<run_ev,
                                LogTimeEvent(t2, "work",
                                  [queue |-> queue_id, task |-> task.task_id,
                                   remaining |-> task.remaining])>>]

(* -------------------------------- run ---------------------------------- *)
\* Scheduler.run line 236: the steps argument is rejected
InvalidSteps(steps) == steps < 1 \/ steps > Max(1, Len(order))

\* advance_index without the modulo of line 248
AdvanceIndexNoWrap(idx) == IF order = <<>> THEN idx ELSE idx + 1

\* advance_index without the increment of line 248
AdvanceIndexStay(idx) == idx

\* Scheduler.run.advance_index: the value of _next_index afterwards
AdvanceIndex(idx) == IF order = <<>> THEN idx ELSE (idx + 1) % Len(order)

\* Scheduler.run lines 266-268 with the "not" of line 268 dropped
QuiescentNotDropped(qs, sp) ==
  /\ \A i \in 1 .. Len(order) : QLen(qs[order[i]]) = 0
  /\ \E i \in 1 .. Len(order) : SkipGet(sp, order[i])

\* Scheduler.run lines 266-268 without any_skip of line 267
QuiescentIgnoringSkips(qs, sp) ==
  \A i \in 1 .. Len(order) : QLen(qs[order[i]]) = 0

\* Scheduler.run lines 266-268: all queues empty and no skip pending
Quiescent(qs, sp) ==
  /\ \A i \in 1 .. Len(order) : QLen(qs[order[i]]) = 0
  /\ ~ \E i \in 1 .. Len(order) : SkipGet(sp, order[i])

\* the last Cardinality(QueueIds) entries of a sequence of visits
LastVisits(v) ==
  IF Len(v) <= Cardinality(QueueIds) THEN v
  ELSE SubSeq(v, Len(v) - Cardinality(QueueIds) + 1, Len(v))

\* the queue under the cursor, self._order[self._next_index]
CurrentQid == order[next_index + 1]

\* one turn on the queue under the cursor followed by advance_index()
TurnAndAdvance(qt) ==
  LET r == PerformSingleTurn(CurrentQid, qt)
  IN  /\ queues' = r.queues
      /\ skip_pending' = r.skip_pending
      /\ time' = r.time
      /\ logs' = logs \o r.logs
      /\ next_index' = AdvanceIndex(next_index)
      /\ finished' = finished \cup
                       {[task |-> r.logs[k].task, made |-> created[r.logs[k].queue]] :
                          k \in {j \in 1 .. Len(r.logs) : r.logs[j].event = "finish"}}
      /\ visited' = LastVisits(Append(visited, r.logs[1].queue))

\* Scheduler.run called with steps: validation, entry of the for loop
RunSteps(qt, steps) ==
  /\ pc = "idle"
  /\ qt < 0 => \A q \in DOMAIN queues :
                 \A i \in 1 .. Len(contents_front_to_back(queues[q])) :
                   contents_front_to_back(queues[q])[i].remaining <= MaxRemaining
  /\ IF InvalidSteps(steps)
     THEN /\ logs' = <<LogTimeEvent(time, "error", [reason |-> "invalid_steps"])>>
          /\ UNCHANGED <<pc, locals, start_index>>
     ELSE /\ logs' = <<>>
          /\ pc' = "steps"
          /\ quantum' = qt
          /\ turns_to_do' = steps
          /\ turns' = 0
          /\ start_index' = next_index
  /\ UNCHANGED <<queues, order, skip_pending, next_index, time, submitted, created, finished, visited>>

\* Scheduler.run lines 277-286: one iteration of the for loop; the call
\* returns after the last one
StepTurn ==
  /\ pc = "steps"
  /\ turns < turns_to_do
  /\ IF order = <<>>
     THEN /\ logs' = Append(logs, LogTimeEvent(time, "run", <<>>))
          /\ UNCHANGED <<queues, skip_pending, time, next_index, finished, visited>>
     ELSE TurnAndAdvance(quantum)
  /\ IF turns + 1 = turns_to_do
     THEN pc' = "idle" /\ quantum' = 0 /\ turns_to_do' = 0 /\ turns' = 0
          /\ start_index' = 0
     ELSE turns' = turns + 1 /\ UNCHANGED <<pc, quantum, turns_to_do, start_index>>
  /\ UNCHANGED <<order, submitted, created>>

\* Scheduler.run called without steps: lines 259-269, up to the first
\* evaluation of the loop condition
RunUntilQuiet(qt) ==
  /\ pc = "idle"
  /\ qt < 0 => \A q \in DOMAIN queues :
                 \A i \in 1 .. Len(contents_front_to_back(queues[q])) :
                   contents_front_to_back(queues[q])[i].remaining <= MaxRemaining
  /\ logs' = <<>>
  /\ IF order = <<>> \/ Quiescent(queues, skip_pending)
     THEN UNCHANGED <<pc, locals>>
     ELSE pc' = "quiet" /\ quantum' = qt /\ turns' = 0 /\ UNCHANGED turns_to_do
  /\ UNCHANGED <<queues, order, skip_pending, next_index, time, submitted, hist>>

\* Scheduler.run lines 270-273 and the next evaluation of lines 266-269: one
\* turn of the while loop, then the loop condition
QuietTurn ==
  /\ pc = "quiet"
  /\ quantum >= 1 \/ turns < MaxSpin
  /\ TurnAndAdvance(quantum)
  /\ IF Quiescent(queues', skip_pending')
     THEN pc' = "idle" /\ quantum' = 0 /\ turns' = 0
     ELSE turns' = (IF quantum >= 1 THEN 0 ELSE turns + 1) /\ UNCHANGED <<pc, quantum>>
  /\ UNCHANGED <<order, turns_to_do, submitted, created, start_index>>

(* ----------------------------- specification --------------------------- *)
Next ==
  \/ \E q \in QueueIds, c \in Capacities : CreateQueue(q, c)
  \/ \E q \in QueueIds, i \in Items : Enqueue(q, i)
  \/ \E q \in QueueIds : MarkSkip(q)
  \/ \E qt \in Quanta, s \in StepsArgs : RunSteps(qt, s)
  \/ \E qt \in Quanta : RunUntilQuiet(qt)
  \/ StepTurn
  \/ QuietTurn

Spec == Init /\ [][Next]_vars

\* one queue id, run with any integer quantum
NextAnyQuantum ==
  \/ \E c \in Capacities : CreateQueue("A", c)
  \/ \E q \in QueueIds, i \in Items : Enqueue(q, i)
  \/ \E q \in QueueIds : MarkSkip(q)
  \/ \E qt \in AnyQuanta, s \in StepsArgs : RunSteps(qt, s)
  \/ \E qt \in AnyQuanta : RunUntilQuiet(qt)
  \/ StepTurn
  \/ QuietTurn

SpecAnyQuantum == Init /\ [][NextAnyQuantum]_vars

\* _order of up to MaxLongOrder entries, capacity 1, quantum 1
NextLongOrder ==
  \/ \E q \in QueueIds : CreateQueueUpTo(q, 1, MaxLongOrder)
  \/ \E q \in QueueIds : Enqueue(q, "americano")
  \/ \E q \in QueueIds : MarkSkip(q)
  \/ \E s \in StepsArgs : RunSteps(1, s)
  \/ RunUntilQuiet(1)
  \/ StepTurn
  \/ QuietTurn

SpecLongOrder == Init /\ [][NextLongOrder]_vars

(* ------------------------------- claims -------------------------------- *)
\* the task ids held by queue q, front to back
TaskIds(q) ==
  [i \in 1 .. Len(contents_front_to_back(q)) |-> contents_front_to_back(q)[i].task_id]

\* the last event of the current logs (logs is not empty)
LastEvent == logs[Len(logs)]

\* a step of run's loops is about to take a turn on the queue under the cursor
TurnPending == pc # "idle" /\ order # <<>>

\* C1: in every state, between calls and between the turns of a run, every
\* queue's size is at most its capacity, and the size is the number of tasks
\* the buffer holds
C1_SizeWithinCapacity ==
  \A q \in DOMAIN queues :
    /\ queues[q].size <= queues[q].capacity
    /\ Len(contents_front_to_back(queues[q])) = queues[q].size
    /\ queues[q].size >= 0

\* C1 witness: a turn has just re-enqueued a partially worked task into a
\* queue that is full
C1_Witness ==
  /\ logs # <<>>
  /\ LastEvent.event = "work"
  /\ LastEvent.remaining > 0
  /\ queues[LastEvent.queue].size = queues[LastEvent.queue].capacity
  /\ queues[LastEvent.queue].size = 2

\* C2 (as claimed): the creation order holds each existing queue id exactly
\* once
C2_OrderHasEachIdOnce ==
  /\ \A i, j \in 1 .. Len(order) : order[i] = order[j] => i = j
  /\ {order[i] : i \in 1 .. Len(order)} = DOMAIN queues

\* C3: a turn on a queue whose skip flag is pending and that holds a task
\* appends exactly run then skip for that queue, clears the flag and leaves
\* the clock and every queue as they were
C3_SkipTurnFrame ==
  [][(/\ TurnPending
      /\ skip_pending[CurrentQid]
      /\ queues[CurrentQid].size > 0)
     => (/\ logs' = logs \o <<[time |-> time, event |-> "run", queue |-> CurrentQid],
                              [time |-> time, event |-> "skip", queue |-> CurrentQid]>>
         /\ skip_pending' = [skip_pending EXCEPT ![CurrentQid] = FALSE]
         /\ time' = time
         /\ queues' = queues
         /\ contents_front_to_back(queues'[CurrentQid])
              = contents_front_to_back(queues[CurrentQid]))]_vars

\* C3 witness: the last turn was forfeited to a skip while its queue held a
\* task
C3_Witness ==
  /\ Len(logs) >= 2
  /\ LastEvent.event = "skip"
  /\ logs[Len(logs) - 1].event = "run"
  /\ logs[Len(logs) - 1].queue = LastEvent.queue
  /\ queues[LastEvent.queue].size > 0
  /\ ~skip_pending[LastEvent.queue]

\* C4 (as claimed): over every step, with any integer quantum, the clock
\* does not decrease and is not negative
C4_ClockMonotone == [][time' >= time /\ time' >= 0]_vars

\* the turn about to be taken works on a task: the queue under the cursor
\* has no skip pending and is not empty
WorkingTurn ==
  /\ TurnPending
  /\ ~skip_pending[CurrentQid]
  /\ queues[CurrentQid].size > 0

\* the task at the front of the queue under the cursor
FrontTask == queues[CurrentQid].buf[queues[CurrentQid].head]

\* min(task.remaining, quantum) for the front task and the quantum of the run
Worked == IF FrontTask.remaining <= quantum THEN FrontTask.remaining ELSE quantum

\* C5: a step changes the clock only if it is a turn that works on a task,
\* and then by exactly min(remaining, quantum); every other step (create,
\* submit, mark-skip, a rejected run, a skip turn, an empty turn) leaves it
C5_ClockFrame ==
  [][IF WorkingTurn THEN time' = time + Worked ELSE time' = time]_vars

\* C5 witness: inside a run with quantum 2 the last turn worked on a task
\* with remaining 1 and advanced the clock by 1
C5_Witness ==
  /\ pc = "steps"
  /\ quantum = 2
  /\ Len(logs) >= 3
  /\ logs[Len(logs) - 2].event = "run"
  /\ logs[Len(logs) - 1].event = "work"
  /\ logs[Len(logs) - 1].time = logs[Len(logs) - 2].time + 1
  /\ LastEvent.event = "finish"

\* C6: the counter of a queue is one more than the number of submits
\* addressed to it since it was created, so the k-th submit is given number
\* k whatever its outcome; the ids held by a queue are pairwise distinct and
\* were issued by earlier submits; turns leave the counter alone
C6_TaskIdNumbering ==
  /\ DOMAIN submitted = DOMAIN queues
  /\ \A q \in DOMAIN queues :
       /\ queues[q].next_task_num = submitted[q] + 1
       /\ \A i, j \in 1 .. Len(TaskIds(queues[q])) :
            TaskIds(queues[q])[i] = TaskIds(queues[q])[j] => i = j
       /\ \A i \in 1 .. Len(TaskIds(queues[q])) :
            \E k \in 1 .. submitted[q] :
              TaskIds(queues[q])[i] = [queue |-> q, num |-> Fmt03d(k)]
  /\ (Len(logs) = 1 /\ logs[1].event \in {"enqueue", "reject"})
       => logs[1].task = [queue |-> logs[1].queue,
                          num |-> Fmt03d(submitted[logs[1].queue])]

\* C6 witness: the first submit to a queue was rejected, the second was
\* accepted as number 002, and a turn has worked on it and re-enqueued it
C6_Witness ==
  \E q \in DOMAIN queues :
    /\ submitted[q] = 2
    /\ queues[q].size = 1
    /\ contents_front_to_back(queues[q])[1].task_id = [queue |-> q, num |-> <<0, 0, 2>>]
    /\ contents_front_to_back(queues[q])[1].remaining = 1

\* C7 (as claimed): run with steps below 1 or above max(1, number of queues
\* that exist) returns the single invalid_steps error and changes nothing;
\* any other steps value is accepted
C7_StepsRange ==
  [][\A qt \in AnyQuanta, s \in StepsArgs :
       RunSteps(qt, s) =>
         IF s < 1 \/ s > Max(1, Cardinality(DOMAIN queues))
         THEN /\ logs' = <<[time |-> time, event |-> "error",
                            reason |-> "invalid_steps"]>>
              /\ pc' = "idle"
              /\ UNCHANGED <<time, next_index, skip_pending, queues, order>>
         ELSE /\ pc' = "steps"
              /\ logs' = <<>>]_vars

\* C8: a turn that works on the front task and leaves it unfinished puts it
\* back with the same id and remaining less the worked amount, as the last
\* element, behind the other tasks in their old order; the size and the
\* other queues are unchanged and the re-enqueue succeeds
C8_RequeueRotates ==
  [][(WorkingTurn /\ FrontTask.remaining - Worked > 0)
     => LET c == contents_front_to_back(queues[CurrentQid])
            back == [task_id |-> c[1].task_id, remaining |-> c[1].remaining - Worked]
        IN  /\ c[1] = FrontTask
            /\ contents_front_to_back(queues'[CurrentQid]) = Tail(c) \o <<back>>
            /\ queues'[CurrentQid].size = queues[CurrentQid].size
            /\ queues'[CurrentQid].next_task_num = queues[CurrentQid].next_task_num
            /\ \A q \in DOMAIN queues \ {CurrentQid} : queues'[q] = queues[q]
            /\ DOMAIN queues' = DOMAIN queues
            /\ logs'[Len(logs')] = [time |-> time', event |-> "work",
                                    queue |-> CurrentQid, task |-> back.task_id,
                                    remaining |-> back.remaining]]_vars

\* C8 witness: the last turn re-enqueued a partially worked task behind another
\* task of the same queue
C8_Witness ==
  /\ logs # <<>>
  /\ LastEvent.event = "work"
  /\ LastEvent.remaining > 0
  /\ queues[LastEvent.queue].size = 2
  /\ contents_front_to_back(queues[LastEvent.queue])[2].task_id = LastEvent.task
  /\ contents_front_to_back(queues[LastEvent.queue])[2].remaining = LastEvent.remaining

C10_UnknownQueueFrame ==
  [][\A q \in QueueIds :
       (/\ q \notin DOMAIN queues
        /\ (\E i \in Items : Enqueue(q, i)) \/ MarkSkip(q))
       => /\ logs' = <<[time |-> time, event |-> "error", queue |-> q,
                        reason |-> "unknown_queue"]>>
          /\ UNCHANGED <<queues, order, skip_pending, next_index, time, submitted>>
          /\ q \notin DOMAIN queues'
          /\ q \notin DOMAIN skip_pending']_vars

\* C10 witness: the last call got the unknown_queue error while another queue
\* existed and held a task
C10_Witness ==
  /\ Len(logs) = 1
  /\ logs[1].event = "error"
  /\ logs[1].reason = "unknown_queue"
  /\ logs[1].queue \notin DOMAIN queues
  /\ \E q \in DOMAIN queues : queues[q].size > 0

\* C11 (as claimed): create_queue on an id that is already a queue keeps the
\* id's skip flag as it was, and leaves the queue empty with its counter
\* back at 1
C11_RecreateKeepsSkipFlag ==
  [][\A q \in QueueIds, c \in Capacities :
       (CreateQueue(q, c) /\ q \in DOMAIN queues)
       => /\ skip_pending'[q] = skip_pending[q]
          /\ queues'[q].size = 0
          /\ contents_front_to_back(queues'[q]) = <<>>
          /\ queues'[q].next_task_num = 1]_vars

\* every existing queue is empty and no skip flag is pending
Quiet ==
  \A q \in DOMAIN queues : queues[q].size = 0 /\ ~skip_pending[q]

\* C12: in a state where every queue is empty and no skip flag is pending
\* (no queues at all included) run without steps returns at once with an
\* empty log and leaves cursor, clock, queues, flags and order unchanged, so
\* that a second call starts from the same state
C12_QuietRunIsNoOp ==
  [][\A qt \in AnyQuanta :
       (RunUntilQuiet(qt) /\ Quiet)
       => /\ logs' = <<>>
          /\ pc' = "idle"
          /\ UNCHANGED <<next_index, time, queues, skip_pending, order>>]_vars

\* C12 witness: run without steps has just returned an empty log in a state
\* where queues exist, work was done earlier and nothing is left to do
C12_Witness ==
  /\ pc = "idle"
  /\ logs = <<>>
  /\ Cardinality(DOMAIN queues) = 2
  /\ time > 0
  /\ Quiet

\* the events a step appends to the log of the run in progress
NewEvents == SubSeq(logs', Len(logs) + 1, Len(logs'))

\* a working turn whose task reaches remaining 0 logs exactly run, work with
\* remaining 0 and finish, and removes the task from the front; one whose
\* task stays above 0 logs exactly run and work with the remaining left
TurnEventsAsClaimed ==
  WorkingTurn =>
    LET q == CurrentQid
        c == contents_front_to_back(queues[q])
        left == FrontTask.remaining - Worked
    IN  IF left <= 0
        THEN /\ NewEvents =
                  <<[time |-> time, event |-> "run", queue |-> q],
                    [time |-> time', event |-> "work", queue |-> q,
                     task |-> c[1].task_id, remaining |-> 0],
                    [time |-> time', event |-> "finish", queue |-> q,
                     task |-> c[1].task_id]>>
             /\ left = 0
             /\ contents_front_to_back(queues'[q]) = Tail(c)
             /\ queues'[q].size = queues[q].size - 1
        ELSE NewEvents =
               <<[time |-> time, event |-> "run", queue |-> q],
                 [time |-> time', event |-> "work", queue |-> q,
                  task |-> c[1].task_id, remaining |-> left]>>

\* C13 (as claimed): the events of a working turn are as above, and no work
\* or finish event is ever logged for a task id that got a finish event
\* before
C13_FinishedIdNeverAgain ==
  [][/\ TurnEventsAsClaimed
     /\ TurnPending =>
          \A k \in 1 .. Len(NewEvents) :
            NewEvents[k].event \in {"work", "finish"}
            => ~ \E f \in finished : f.task = NewEvents[k].task]_vars

\* C13 (amended): the events of a working turn are as above, and no work or
\* finish event is logged for a task id that got a finish event before,
\* as long as create_queue has not been called again for its queue since
C13_FinishTurn ==
  [][/\ TurnEventsAsClaimed
     /\ TurnPending =>
          \A k \in 1 .. Len(NewEvents) :
            NewEvents[k].event \in {"work", "finish"}
            => [task |-> NewEvents[k].task,
                made |-> created[NewEvents[k].queue]] \notin finished]_vars

\* C13 witness: the last turn finished a task of a queue that still holds
\* another task, after an earlier task of that queue had finished
C13_Witness ==
  /\ Len(logs) >= 3
  /\ LastEvent.event = "finish"
  /\ logs[Len(logs) - 1].event = "work"
  /\ logs[Len(logs) - 1].remaining = 0
  /\ logs[Len(logs) - 2].event = "run"
  /\ queues[LastEvent.queue].size = 1
  /\ [task |-> LastEvent.task, made |-> created[LastEvent.queue]] \in finished
  /\ Cardinality(finished) >= 2

\* the run events of a log, in order
RunEvents(l) == SelectSeq(l, LAMBDA e : e.event = "run")

\* C14: a run with a valid steps value s on an engine with at least one
\* queue makes exactly s turns: after the n-th turn the log holds n run
\* events, the i-th naming order[(c + i - 1) mod len(order)] for the cursor c
\* before the call, the cursor is (c + n) mod len(order), and the call returns
\* after the s-th turn and not before, whatever the kind of each turn
C14_StepsTurns ==
  [][(pc = "steps" /\ order # <<>>) =>
       LET n == turns + 1
           runs == RunEvents(logs')
       IN  /\ Len(runs) = n
           /\ \A i \in 1 .. n :
                runs[i].queue = order[((start_index + i - 1) % Len(order)) + 1]
           /\ next_index' = (start_index + n) % Len(order)
           /\ (pc' = "idle") <=> (n = turns_to_do)
           /\ n <= turns_to_do]_vars

\* C14 witness: a run of two steps called with the cursor on the second
\* queue has made its first turn, a skip turn, and the cursor has wrapped
C14_Witness ==
  /\ pc = "steps"
  /\ turns_to_do = 2
  /\ turns = 1
  /\ start_index = 1
  /\ next_index = 0
  /\ LastEvent.event = "skip"
  /\ Len(RunEvents(logs)) = 1

\* the existing queue ids in creation order: _order without the repeats
RECURSIVE CreationOrder(_)
CreationOrder(o) ==
  IF o = <<>> THEN <<>>
  ELSE LET rest == CreationOrder(SubSeq(o, 1, Len(o) - 1))
           x == o[Len(o)]
       IN  IF \E i \in 1 .. Len(rest) : rest[i] = x THEN rest
           ELSE Append(rest, x)

\* position of an existing queue id in the creation order
CreationPos(q) ==
  CHOOSE i \in 1 .. Len(CreationOrder(order)) : CreationOrder(order)[i] = q

\* C15: with N existing queues and no create_queue call in between, each
\* turn visits the queue that follows the queue of the previous turn in
\* creation order (cyclically), so any N consecutive turns visit every queue
\* exactly once and no queue is visited twice before the others were visited
C15_RoundRobinFair ==
  LET N == Cardinality(DOMAIN queues)
  IN  /\ \A i \in 1 .. Len(visited) - 1 :
           CreationPos(visited[i + 1]) = (CreationPos(visited[i]) % N) + 1
      /\ Len(visited) >= N =>
           {visited[i] : i \in (Len(visited) - N + 1) .. Len(visited)}
             = DOMAIN queues

\* sum of the remaining fields of a sequence of tasks
RECURSIVE SumRemaining(_)
SumRemaining(c) ==
  IF c = <<>> THEN 0 ELSE c[1].remaining + SumRemaining(Tail(c))

\* sum of SumRemaining over the queues with ids in S
RECURSIVE TotalRemaining(_, _)
TotalRemaining(qs, S) ==
  IF S = {} THEN 0
  ELSE LET q == CHOOSE x \in S : TRUE
       IN  SumRemaining(contents_front_to_back(qs[q]))
             + TotalRemaining(qs, S \ {q})

\* what a run has left to do: the total remaining work plus the number of
\* pending skip flags
WorkLeft(qs, sp) ==
  TotalRemaining(qs, DOMAIN qs) + Cardinality({q \in DOMAIN sp : sp[q]})

\* number of turns from cursor idx to the first slot of order whose queue
\* holds a task or has its skip flag pending (0 when no slot has)
IdleTurns(qs, sp, idx) ==
  LET busy == {d \in 0 .. Len(order) - 1 :
                 LET q == order[((idx + d) % Len(order)) + 1]
                 IN  qs[q].size > 0 \/ sp[q]}
  IN  IF busy = {} THEN 0 ELSE CHOOSE d \in busy : \A e \in busy : d <= e

\* the variant of the loop of run without steps
Variant(qs, sp, idx) == WorkLeft(qs, sp) * Len(order) + IdleTurns(qs, sp, idx)

\* C16: run without steps and with quantum >= 1 terminates: every turn of
\* its loop either clears a pending skip flag or reduces the total remaining
\* work by at least 1, or is an empty turn that brings the cursor nearer to a
\* queue with work or a flag; so a natural-number variant decreases on every
\* turn, a full cycle over order reduces the work left, and the loop ends
\* when no work is left
C16_QuietRunTerminates ==
  [][(pc = "quiet" /\ quantum >= 1) =>
       /\ WorkLeft(queues, skip_pending) > 0
       /\ WorkLeft(queues', skip_pending') >= 0
       /\ WorkLeft(queues', skip_pending') <= WorkLeft(queues, skip_pending)
       /\ IdleTurns(queues, skip_pending, next_index) = 0
            => WorkLeft(queues', skip_pending') < WorkLeft(queues, skip_pending)
       /\ Variant(queues', skip_pending', next_index')
            < Variant(queues, skip_pending, next_index)
       /\ WorkLeft(queues', skip_pending') = 0 => pc' = "idle"]_vars

\* C16 witness: a run without steps has just made an empty turn while
\* another queue still holds work, after an earlier turn that cleared a flag
C16_Witness ==
  /\ pc = "quiet"
  /\ quantum >= 1
  /\ Len(logs) >= 3
  /\ LastEvent.event = "run"
  /\ \E k \in 1 .. Len(logs) : logs[k].event = "skip"
  /\ TotalRemaining(queues, DOMAIN queues) > 0

\* C17: whenever run without steps returns, at once or out of its loop,
\* every existing queue is empty and no skip flag is pending; the loop is
\* entered and continued only in a state where that is not so, hence every
\* turn of it, the last one too, starts in a non-quiescent state
C17_ReturnsQuiescent ==
  [][/\ \A qt \in Quanta : (RunUntilQuiet(qt) /\ pc' = "idle") => Quiet'
     /\ (pc = "quiet" /\ pc' = "idle") => Quiet'
     /\ pc = "quiet" => ~ Quiet
     /\ pc' = "quiet" => ~ Quiet']_vars

\* C17 witness: a run without steps has returned after three turns or more,
\* one of them a skip turn and the last one finishing a task
C17_Witness ==
  /\ pc = "idle"
  /\ Len(RunEvents(logs)) >= 3
  /\ \E k \in 1 .. Len(logs) : logs[k].event = "skip"
  /\ LastEvent.event = "finish"
  /\ Cardinality(DOMAIN queues) = 2
  /\ Quiet

\* C18: the skip flag is one-shot.  mark_skip of an existing queue sets its
\* flag, however often it is called, and no other flag; a submit and the
\* entry of a run change no flag; a turn changes no flag but that of the
\* queue it visits, which it leaves cleared; the turn is forfeited (run then
\* skip, clock and queues unchanged) exactly when the flag of the visited
\* queue was pending, with or without tasks in it, and otherwise works on the
\* front task or, the queue being empty, logs run alone, whatever the flags
\* of the other queues
C18_SkipOneShot ==
  [][/\ \A q \in DOMAIN queues :
          MarkSkip(q) => skip_pending' = [skip_pending EXCEPT ![q] = TRUE]
     /\ \A q \in QueueIds, i \in Items :
          Enqueue(q, i) => skip_pending' = skip_pending
     /\ pc = "idle" /\ pc' # "idle" => skip_pending' = skip_pending
     /\ TurnPending =>
          LET x == CurrentQid
          IN  /\ skip_pending' = [skip_pending EXCEPT ![x] = FALSE]
              /\ NewEvents[1] = [time |-> time, event |-> "run", queue |-> x]
              /\ IF skip_pending[x]
                 THEN /\ NewEvents = <<NewEvents[1],
                                       [time |-> time, event |-> "skip", queue |-> x]>>
                      /\ time' = time
                      /\ queues' = queues
                 ELSE IF queues[x].size = 0
                      THEN /\ NewEvents = <<NewEvents[1]>>
                           /\ time' = time
                           /\ queues' = queues
                      ELSE /\ Len(NewEvents) >= 2
                           /\ NewEvents[2].event = "work"
                           /\ NewEvents[2].queue = x
                           /\ NewEvents[2].task
                                = contents_front_to_back(queues[x])[1].task_id]_vars

\* C18 witness: in one run a turn worked on a queue while the flag of the
\* other queue was pending, the next turn was forfeited by that other queue,
\* which holds a task, and its flag is cleared
C18_Witness ==
  /\ Len(logs) >= 4
  /\ logs[1].event = "run"
  /\ logs[2].event = "work"
  /\ LastEvent.event = "skip"
  /\ LastEvent.queue # logs[1].queue
  /\ queues[LastEvent.queue].size > 0
  /\ ~ skip_pending[LastEvent.queue]

\* the tasks stored in the queues
StoredTasks ==
  UNION {{contents_front_to_back(queues[q])[i] :
            i \in 1 .. Len(contents_front_to_back(queues[q]))} :
         q \in DOMAIN queues}

\* C19: in every reachable state every task stored in a queue has
\* remaining > 0, and 0 <= cursor < len(order) whenever order is not empty
C19_PositiveRemainingAndCursor ==
  /\ \A t \in StoredTasks : t.remaining > 0
  /\ order # <<>> => (0 <= next_index /\ next_index < Len(order))

\* C19 witness: create_queue has just grown order to two slots while a queue
\* holds a task that was worked on before and has 1 left
C19_Witness ==
  /\ pc = "idle"
  /\ logs # <<>>
  /\ LastEvent.event = "create"
  /\ Len(order) = 2
  /\ time > 0
  /\ \E t \in StoredTasks : t.remaining = 1

\* the clock plus the remaining work of all the tasks in all the queues
ClockPlusRemaining(t, qs) == t + TotalRemaining(qs, DOMAIN qs)

\* C20: with every run at quantum >= 1, over every step that does not
\* re-create an existing queue id the clock plus the sum of remaining over
\* all queued tasks grows by the menu cost of the item when the step is an
\* accepted submission (an enqueue event) and stays the same otherwise; it
\* is 0 at the start, so between operations it equals the sum of the menu
\* costs of the accepted submissions as long as no queue id is re-created
C20_WorkConservation ==
  [][(~ \E q \in DOMAIN queues, c \in Capacities : CreateQueue(q, c)) =>
       LET before == ClockPlusRemaining(time, queues)
           after == ClockPlusRemaining(time', queues')
           accepts == {i \in Items :
                         \E q \in QueueIds :
                           /\ Enqueue(q, i)
                           /\ logs'[1].event = "enqueue"}
       IN  /\ \A i \in accepts : after - before = Menu[i]
           /\ accepts = {} => after = before
           /\ pc # "idle" => quantum >= 1]_vars

\* C20 witness: no queue id was re-created, a task has finished, another is
\* stored partly worked, and a submission has just been accepted
C20_Witness ==
  /\ pc = "idle"
  /\ logs # <<>>
  /\ LastEvent.event = "enqueue"
  /\ \A q \in DOMAIN created : created[q] = 1
  /\ finished # {}
  /\ \E t \in StoredTasks : t.remaining = 1
  /\ ClockPlusRemaining(time, queues) = 3 * Menu["americano"]

====
